---- MODULE Spec2Model ----
(***************************************************************************)
(* wavescribe (src/main.py): the annotation session of AudioAnnotator,     *)
(* the playback of the current word and the start of the program (the      *)
(* settings file, the setup dialog, the subject list).                     *)
(*                                                                         *)
(* The state is the window's session fields (c_rating_df, c_word_index,    *)
(* c_start_time, c_end_time, c_changed_times, c_sub_id, the text box, the  *)
(* context list, the buttons' enabled flags) and the output CSV file of    *)
(* every subject.  Each slot of the window is an operator from the state   *)
(* before the call to the state after it; an action of the specification   *)
(* is one user event that Qt can deliver: a click on an enabled button or  *)
(* on an item of the context list, a drag of a boundary line, typing in    *)
(* the text box.                                                           *)
(*                                                                         *)
(* Times are fixed-point: one tick is 1/Scale of a millisecond, which      *)
(* keeps (start + end) / 2 exact for MaxInputs nested splits.              *)
(* Text is a sequence of one-character strings.                            *)
(* An unhandled Python exception in a slot ends the process (PyQt6 calls   *)
(* qFatal): the state keeps what the slot had done so far, crashed is set  *)
(* and no further event is delivered.                                      *)
(***************************************************************************)
EXTENDS Integers, Sequences, FiniteSets, TLC

VARIABLES
    file_system,       \* the settings files and the data directories on disk
    main_pc,           \* the process: not started, showing the window, exited
    data_dir,          \* None, or self.data_dir of the window
    sub_list,          \* the items of the subject QListWidget
    rater_name,        \* self.rater_name
    c_audio_data,      \* None, or the audio of the loaded subject
    c_word_index,      \* self.c_word_index (0-based)
    c_rating_df,       \* None, or the table: a sequence of rows
    c_start_time,      \* None, or the pending start
    c_end_time,        \* None, or the pending end
    c_changed_times,   \* self.c_changed_times
    c_sub_id,          \* None, or the loaded subject id
    word_text_edit,    \* the text shown in the QTextEdit
    context_list,      \* the items of the context QListWidget
    next_button,       \* isEnabled() of each button
    prev_button,
    split_button,
    delete_button,
    reset_button,
    play_button,
    play_context_button,
    playback_line,     \* None, or the position of the blue playback line
    playback_timer,    \* None, or the running QTimer: the times its slot was given
    playback_start_time,
    playback_current_time,
    output_files,      \* subject id -> None (no file), or the CSV written
    messages,          \* titles of the message boxes the last slot showed
    crashed,           \* an exception escaped a slot
    ninputs,           \* edits made so far: text typed, lines dragged, splits
    last_op            \* the last event: its slot, its argument, the cursor before it

vars == << file_system, main_pc, data_dir, sub_list, rater_name, c_audio_data, c_word_index, c_rating_df, c_start_time,
           c_end_time, c_changed_times, c_sub_id, word_text_edit, context_list,
           next_button, prev_button, split_button, delete_button, reset_button,
           play_button, play_context_button, playback_line, playback_timer,
           playback_start_time, playback_current_time,
           output_files, messages, crashed, ninputs, last_op >>

-----------------------------------------------------------------------------
(* Bounds of the model *)

\* the edits (typing, dragging, splitting) and playbacks a behaviour may make
MaxInputs == 2

\* the ticks of the playback timer followed after one start of a playback
MaxTicks == 2

-----------------------------------------------------------------------------
(* Python's None / Optional *)

None == << >>
Some(v) == << v >>
Get(o) == o[1]

(* Fixed-point time *)

Scale == 2 ^ MaxInputs
Ms(n) == n * Scale
Tenth == Ms(100)
Hundredth == Ms(10)

\* round(x, 2): to the nearest multiple of 0.01, a tie to the even multiple
round2(x) ==
    LET lo == (x \div Hundredth) * Hundredth
        r  == x - lo
    IN  IF 2 * r < Hundredth THEN lo
        ELSE IF 2 * r > Hundredth THEN lo + Hundredth
        ELSE IF (lo \div Hundredth) % 2 = 0 THEN lo ELSE lo + Hundredth

-----------------------------------------------------------------------------
(* Text *)

\* str.lower() on the characters of the model
lower_char(ch) ==
    CASE ch = "C" -> "c"
      [] ch = "D" -> "d"
      [] OTHER -> ch

lower(w) == [i \in 1..Len(w) |-> lower_char(w[i])]

RECURSIVE lstrip(_)
lstrip(w) == IF w # << >> /\ Head(w) = " " THEN lstrip(Tail(w)) ELSE w

RECURSIVE rstrip(_)
rstrip(w) ==
    IF w # << >> /\ w[Len(w)] = " " THEN rstrip(SubSeq(w, 1, Len(w) - 1)) ELSE w

strip(w) == rstrip(lstrip(w))

normalize_word(word) == strip(lower(word))

Split1Suffix == << " ", "(", "s", "p", "l", "i", "t", " ", "1", ")" >>
Split2Suffix == << " ", "(", "s", "p", "l", "i", "t", " ", "2", ")" >>

-----------------------------------------------------------------------------
(* pandas values and the CSV files *)

\* float('nan') in a text column, in the rater column; Python None
NaNText == << "NaN" >>
NaN == "NaN"
PyNone == "None"

needed_columns == {"transcription", "start", "end"}
needed_output_columns ==
    {"transcription", "word_clean", "start", "end", "rater", "changed"}

\* DataFrame.to_csv(path, index=False): a missing value is an empty field
to_csv(df) ==
    [ columns |-> needed_output_columns,
      rows |-> [i \in 1..Len(df) |->
        [ transcription |-> IF df[i].transcription = NaNText THEN << >>
                            ELSE df[i].transcription,
          word_clean    |-> IF df[i].word_clean = NaNText THEN << >>
                            ELSE df[i].word_clean,
          start         |-> df[i].start,
          end           |-> df[i].end,
          rater         |-> IF df[i].rater \in {NaN, PyNone} THEN ""
                            ELSE df[i].rater,
          changed       |-> IF df[i].changed THEN "True" ELSE "False" ]] ]

\* pd.read_csv(path): an empty field is NaN, True/False is a bool
read_csv(file) ==
    [i \in 1..Len(file.rows) |->
        [ transcription |-> IF file.rows[i].transcription = << >> THEN NaNText
                            ELSE file.rows[i].transcription,
          word_clean    |-> IF file.rows[i].word_clean = << >> THEN NaNText
                            ELSE file.rows[i].word_clean,
          start         |-> file.rows[i].start,
          end           |-> file.rows[i].end,
          rater         |-> IF file.rows[i].rater = "" THEN NaN
                            ELSE file.rows[i].rater,
          changed       |-> file.rows[i].changed = "True" ]]

\* the output columns load_audio_file adds to a pre-annotated table
add_output_columns(columns, df) ==
    [i \in 1..Len(df) |->
        [ transcription |-> df[i].transcription,
          word_clean    |-> IF "word_clean" \in columns THEN df[i].word_clean
                            ELSE IF df[i].transcription = NaNText THEN NaNText
                            ELSE normalize_word(df[i].transcription),
          start         |-> df[i].start,
          end           |-> df[i].end,
          rater         |-> IF "rater" \in columns THEN df[i].rater ELSE PyNone,
          changed       |-> FALSE ]]

-----------------------------------------------------------------------------
(* The data directory: the subjects found and their pre-annotated files *)

Subjects == {"sub-01", "sub-02"}
RaterNames == {"GK"}

CsvRow(t, s, e, r) ==
    [ transcription |-> t, word_clean |-> << >>, start |-> Ms(s), end |-> Ms(e),
      rater |-> r, changed |-> "False" ]

pre_annotated(sub_id) ==
    CASE sub_id = "sub-01" ->
           [ columns |-> {"transcription", "start", "end", "rater"},
             rows |-> << CsvRow(<< "C", "a", "t" >>, 2000, 4000, "AB"),
                         CsvRow(<< "d", "o", "g" >>, 4501, 4716, "") >> ]
      [] OTHER ->
           [ columns |-> {"transcription", "start", "end"},
             rows |-> << >> ]

\* what the user may type into the text box, and where a line may be dragged
TextInputs == { << "C", "a", "t", " " >>, << >> }
DragTimes == { Ms(4501), Ms(4504) }

-----------------------------------------------------------------------------
(* The session as one value *)

St ==
    [ rater_name |-> rater_name, c_audio_data |-> c_audio_data,
      c_word_index |-> c_word_index, c_rating_df |-> c_rating_df,
      c_start_time |-> c_start_time, c_end_time |-> c_end_time,
      c_changed_times |-> c_changed_times, c_sub_id |-> c_sub_id,
      word_text_edit |-> word_text_edit, context_list |-> context_list,
      next_button |-> next_button, prev_button |-> prev_button,
      split_button |-> split_button, delete_button |-> delete_button,
      reset_button |-> reset_button, play_button |-> play_button,
      play_context_button |-> play_context_button,
      playback_line |-> playback_line, playback_timer |-> playback_timer,
      playback_start_time |-> playback_start_time,
      playback_current_time |-> playback_current_time,
      output_files |-> output_files,
      messages |-> messages, crashed |-> crashed ]

df_of(s) == Get(s.c_rating_df)
InRange(s) == s.c_word_index \in 0..(Len(df_of(s)) - 1)
\* self.c_rating_df.loc[self.c_word_index, ...]
Row(s) == df_of(s)[s.c_word_index + 1]

\* QMessageBox.warning / .information: the box shown is recorded by its title
message_box(s, title) == [s EXCEPT !.messages = Append(@, title)]
show_error(s, title) == message_box(s, title)
raise(s) == [s EXCEPT !.crashed = TRUE]

\* f"{idx_word:03d} | ..." and int(item_text.split(" | ")[0])
format_03d(i) == << (i \div 100) % 10, (i \div 10) % 10, i % 10 >>
int_of(digits) == digits[1] * 100 + digits[2] * 10 + digits[3]

\* save_rating_df in append mode: the rows are added to those the file holds
save_rating_df_append(s) ==
    IF s.c_rating_df = None THEN show_error(s, "RATING DATAFRAME ERROR")
    ELSE IF s.c_sub_id = None THEN show_error(s, "SUB ID ERROR")
    ELSE [s EXCEPT !.output_files[Get(s.c_sub_id)] =
            IF @ = None THEN Some(to_csv(df_of(s)))
            ELSE Some([Get(@) EXCEPT !.rows = @ \o to_csv(df_of(s)).rows])]

save_rating_df(s) ==
    IF s.c_rating_df = None THEN show_error(s, "RATING DATAFRAME ERROR")
    ELSE IF s.c_sub_id = None THEN show_error(s, "SUB ID ERROR")
    ELSE [s EXCEPT !.output_files[Get(s.c_sub_id)] = Some(to_csv(df_of(s)))]

show_current_word(s) ==
    IF s.c_rating_df = None \/ s.c_audio_data = None
    THEN message_box(s, "Data not loaded")
    ELSE IF Len(df_of(s)) = 0 THEN message_box(s, "Empty pre_annotated file")
    ELSE IF ~InRange(s) THEN raise(s)
    ELSE IF Row(s).transcription = NaNText THEN raise(s)
    ELSE [s EXCEPT
            !.word_text_edit = Row(s).transcription,
            !.c_start_time = Some(Row(s).start),
            !.c_end_time = Some(Row(s).end),
            !.context_list = [i \in 1..Len(df_of(s)) |-> format_03d(i - 1)],
            !.next_button = TRUE,
            !.prev_button = s.c_word_index > 0,
            !.split_button = TRUE,
            !.delete_button = Len(df_of(s)) > 1,
            !.play_button = TRUE,
            !.play_context_button = TRUE,
            !.reset_button = TRUE]

\* save_rating that stores the pending times as they are, unrounded
save_rating_no_round(s) ==
    IF s.c_rating_df = None \/ s.c_audio_data = None
    THEN show_error(s, "Data not loaded")
    ELSE IF ~InRange(s) THEN raise(s)
    ELSE IF Row(s).transcription = NaNText THEN raise(s)
    ELSE
      LET i == s.c_word_index + 1
          previous_word == normalize_word(Row(s).transcription)
          current_word == normalize_word(s.word_text_edit)
          s1 == [s EXCEPT !.c_rating_df[1][i].rater = s.rater_name]
      IN  IF previous_word # current_word \/ s.c_changed_times
          THEN IF s.c_start_time = None \/ s.c_end_time = None THEN raise(s1)
               ELSE save_rating_df(
                      [s1 EXCEPT
                         !.c_rating_df[1][i].transcription = current_word,
                         !.c_rating_df[1][i].start = Get(s.c_start_time),
                         !.c_rating_df[1][i].end = Get(s.c_end_time),
                         !.c_changed_times = FALSE,
                         !.c_rating_df[1][i].changed = TRUE])
          ELSE save_rating_df(s1)

\* save_rating that returns without a message box when nothing is loaded
save_rating_silent(s) ==
    IF s.c_rating_df = None \/ s.c_audio_data = None
    THEN s
    ELSE IF ~InRange(s) THEN raise(s)
    ELSE IF Row(s).transcription = NaNText THEN raise(s)
    ELSE
      LET i == s.c_word_index + 1
          previous_word == normalize_word(Row(s).transcription)
          current_word == normalize_word(s.word_text_edit)
          s1 == [s EXCEPT !.c_rating_df[1][i].rater = s.rater_name]
      IN  IF previous_word # current_word \/ s.c_changed_times
          THEN IF s.c_start_time = None \/ s.c_end_time = None THEN raise(s1)
               ELSE save_rating_df(
                      [s1 EXCEPT
                         !.c_rating_df[1][i].transcription = current_word,
                         !.c_rating_df[1][i].start = round2(Get(s.c_start_time)),
                         !.c_rating_df[1][i].end = round2(Get(s.c_end_time)),
                         !.c_changed_times = FALSE,
                         !.c_rating_df[1][i].changed = TRUE])
          ELSE save_rating_df(s1)


save_rating(s) ==
    IF s.c_rating_df = None \/ s.c_audio_data = None
    THEN show_error(s, "Data not loaded")
    ELSE IF ~InRange(s) THEN raise(s)
    ELSE IF Row(s).transcription = NaNText THEN raise(s)
    ELSE
      LET i == s.c_word_index + 1
          previous_word == normalize_word(Row(s).transcription)
          current_word == normalize_word(s.word_text_edit)
          s1 == [s EXCEPT !.c_rating_df[1][i].rater = s.rater_name]
      IN  IF previous_word # current_word \/ s.c_changed_times
          THEN IF s.c_start_time = None \/ s.c_end_time = None THEN raise(s1)
               ELSE save_rating_df(
                      [s1 EXCEPT
                         !.c_rating_df[1][i].transcription = current_word,
                         !.c_rating_df[1][i].start = round2(Get(s.c_start_time)),
                         !.c_rating_df[1][i].end = round2(Get(s.c_end_time)),
                         !.c_changed_times = FALSE,
                         !.c_rating_df[1][i].changed = TRUE])
          ELSE save_rating_df(s1)

\* next_word without the test for the last record
next_word_no_end(s) ==
    IF s.c_rating_df = None THEN show_error(s, "No data loaded")
    ELSE
      LET s1 == save_rating(s)
      IN  IF s1.crashed THEN s1
          ELSE show_current_word([s1 EXCEPT !.c_word_index = @ + 1])

next_word(s) ==
    IF s.c_rating_df = None THEN show_error(s, "No data loaded")
    ELSE
      LET s1 == save_rating(s)
      IN  IF s1.crashed THEN s1
          ELSE IF s1.c_word_index = Len(df_of(s1)) - 1
               THEN message_box(s1, "Data saved!")
          ELSE show_current_word([s1 EXCEPT !.c_word_index = @ + 1])

\* prev_word that does not save before it moves
prev_word_no_save(s) ==
    IF s.c_word_index = 0 THEN show_error(s, "No previous word")
    ELSE show_current_word([s EXCEPT !.c_word_index = @ - 1])

\* prev_word without the test for the first record
prev_word_no_first(s) ==
    LET s1 == save_rating(s)
    IN  IF s1.crashed THEN s1
        ELSE show_current_word([s1 EXCEPT !.c_word_index = @ - 1])

prev_word(s) ==
    LET s1 == save_rating(s)
    IN  IF s1.crashed THEN s1
        ELSE IF s1.c_word_index = 0 THEN show_error(s1, "No previous word")
        ELSE show_current_word([s1 EXCEPT !.c_word_index = @ - 1])

\* on_context_item_clicked with the upper test off by one: <= len
on_context_item_clicked_le(s, item) ==
    IF s.c_rating_df = None THEN s
    ELSE
      LET s1 == save_rating(s)
          word_index == int_of(item)
      IN  IF s1.crashed THEN s1
          ELSE IF 0 <= word_index /\ word_index <= Len(df_of(s1))
               THEN show_current_word([s1 EXCEPT !.c_word_index = word_index])
          ELSE s1

on_context_item_clicked(s, item) ==
    IF s.c_rating_df = None THEN s
    ELSE
      LET s1 == save_rating(s)
          word_index == int_of(item)
      IN  IF s1.crashed THEN s1
          ELSE IF 0 <= word_index /\ word_index < Len(df_of(s1))
               THEN show_current_word([s1 EXCEPT !.c_word_index = word_index])
          ELSE s1

\* reset_word that redraws the record and keeps the flag
reset_word_keep_flag(s) == show_current_word(s)

reset_word(s) == show_current_word([s EXCEPT !.c_changed_times = FALSE])

\* InfiniteLine.setValue(old) moves the line back, and a line that moves emits
\* sigPositionChanged again: the slot re-enters with line.value() = old.
RECURSIVE on_start_line_moved(_, _)
on_start_line_moved(s, new_start_time) ==
    IF s.c_end_time # None /\ new_start_time >= Get(s.c_end_time)
    THEN IF Get(s.c_start_time) # new_start_time
         THEN on_start_line_moved(s, Get(s.c_start_time))
         ELSE s
    ELSE [s EXCEPT !.c_start_time = Some(new_start_time),
                   !.c_changed_times = TRUE]

\* on_end_line_moved that takes the new end and does not flag it
on_end_line_moved_no_flag(s, new_end_time) ==
    IF s.c_start_time # None /\ new_end_time <= Get(s.c_start_time)
    THEN s
    ELSE [s EXCEPT !.c_end_time = Some(new_end_time)]

RECURSIVE on_end_line_moved(_, _)
on_end_line_moved(s, new_end_time) ==
    IF s.c_start_time # None /\ new_end_time <= Get(s.c_start_time)
    THEN IF Get(s.c_end_time) # new_end_time
         THEN on_end_line_moved(s, Get(s.c_end_time))
         ELSE s
    ELSE [s EXCEPT !.c_end_time = Some(new_end_time),
                   !.c_changed_times = TRUE]

\* split_word that puts the copy of the row at the end of the table
split_word_append(s) ==
    IF s.c_rating_df = None \/ s.c_start_time = None \/ s.c_end_time = None
    THEN show_error(s, "No data loaded")
    ELSE IF ~InRange(s) THEN raise(s)
    ELSE
      LET df == df_of(s)
          i == s.c_word_index + 1
          n == Len(df) + 1
          mid == (Get(s.c_start_time) + Get(s.c_end_time)) \div 2
          s1 == [s EXCEPT !.c_rating_df = Some(Append(df, df[i]))]
          s2 == [s1 EXCEPT !.c_rating_df[1][i].end = mid - Tenth,
                           !.c_rating_df[1][n].start = mid + Tenth]
      IN  IF df[i].transcription = NaNText THEN raise(s2)
          ELSE show_current_word(save_rating_df(
                 [s2 EXCEPT
                    !.c_rating_df[1][i].transcription = @ \o Split1Suffix,
                    !.c_rating_df[1][n].transcription = @ \o Split2Suffix]))

\* split_word that takes the midpoint of the stored start and end
split_word_stored_times(s) ==
    IF s.c_rating_df = None \/ s.c_start_time = None \/ s.c_end_time = None
    THEN show_error(s, "No data loaded")
    ELSE IF ~InRange(s) THEN raise(s)
    ELSE
      LET df == df_of(s)
          i == s.c_word_index + 1
          mid == (df[i].start + df[i].end) \div 2
          first_df == SubSeq(df, 1, i)
          second_df == SubSeq(df, i + 1, Len(df))
          new_row_df == << df[i] >>
          s1 == [s EXCEPT !.c_rating_df = Some(first_df \o new_row_df \o second_df)]
          s2 == [s1 EXCEPT !.c_rating_df[1][i].end = mid - Tenth,
                           !.c_rating_df[1][i + 1].start = mid + Tenth]
      IN  IF df[i].transcription = NaNText THEN raise(s2)
          ELSE show_current_word(save_rating_df(
                 [s2 EXCEPT
                    !.c_rating_df[1][i].transcription = @ \o Split1Suffix,
                    !.c_rating_df[1][i + 1].transcription = @ \o Split2Suffix]))

split_word(s) ==
    IF s.c_rating_df = None \/ s.c_start_time = None \/ s.c_end_time = None
    THEN show_error(s, "No data loaded")
    ELSE IF ~InRange(s) THEN raise(s)
    ELSE
      LET df == df_of(s)
          i == s.c_word_index + 1
          mid == (Get(s.c_start_time) + Get(s.c_end_time)) \div 2
          first_df == SubSeq(df, 1, i)
          second_df == SubSeq(df, i + 1, Len(df))
          new_row_df == << df[i] >>
          s1 == [s EXCEPT !.c_rating_df = Some(first_df \o new_row_df \o second_df)]
          s2 == [s1 EXCEPT !.c_rating_df[1][i].end = mid - Tenth,
                           !.c_rating_df[1][i + 1].start = mid + Tenth]
      IN  IF df[i].transcription = NaNText THEN raise(s2)
          ELSE show_current_word(save_rating_df(
                 [s2 EXCEPT
                    !.c_rating_df[1][i].transcription = @ \o Split1Suffix,
                    !.c_rating_df[1][i + 1].transcription = @ \o Split2Suffix]))

\* delete_word that drops the row after the cursor when there is one
delete_word_drop_next(s, reply) ==
    IF s.c_rating_df = None THEN show_error(s, "No data loaded")
    ELSE IF reply # "Yes" THEN s
    ELSE IF ~InRange(s) THEN raise(s)
    ELSE
      LET df == df_of(s)
          i == IF s.c_word_index + 2 <= Len(df) THEN s.c_word_index + 2
               ELSE s.c_word_index + 1
          s1 == save_rating_df(
                  [s EXCEPT !.c_rating_df =
                      Some(SubSeq(df, 1, i - 1) \o SubSeq(df, i + 1, Len(df)))])
          s2 == IF s1.c_word_index >= Len(df_of(s1)) /\ s1.c_word_index > 0
                THEN [s1 EXCEPT !.c_word_index = @ - 1]
                ELSE s1
      IN  show_current_word(s2)

\* delete_word that leaves the cursor where it was
delete_word_no_clamp(s, reply) ==
    IF s.c_rating_df = None THEN show_error(s, "No data loaded")
    ELSE IF reply # "Yes" THEN s
    ELSE IF ~InRange(s) THEN raise(s)
    ELSE
      LET df == df_of(s)
          i == s.c_word_index + 1
      IN  show_current_word(save_rating_df(
            [s EXCEPT !.c_rating_df =
                Some(SubSeq(df, 1, i - 1) \o SubSeq(df, i + 1, Len(df)))]))

\* reply: the answer to the "Are you sure?" box
delete_word(s, reply) ==
    IF s.c_rating_df = None THEN show_error(s, "No data loaded")
    ELSE IF reply # "Yes" THEN s
    ELSE IF ~InRange(s) THEN raise(s)
    ELSE
      LET df == df_of(s)
          i == s.c_word_index + 1
          s1 == save_rating_df(
                  [s EXCEPT !.c_rating_df =
                      Some(SubSeq(df, 1, i - 1) \o SubSeq(df, i + 1, Len(df)))])
          s2 == IF s1.c_word_index >= Len(df_of(s1)) /\ s1.c_word_index > 0
                THEN [s1 EXCEPT !.c_word_index = @ - 1]
                ELSE s1
      IN  show_current_word(s2)

\* max(a, b) and min(a, b)
max(a, b) == IF a >= b THEN a ELSE b
min(a, b) == IF a <= b THEN a ELSE b

\* self.padding_s = 1.2
padding_s == Ms(1200)

\* len(self.c_audio_data) / self.c_sample_rate of a subject's recording
audio_seconds(audio_data) == Ms(5000)

\* the old line is taken off the plot; the new QTimer replaces the old one,
\* which loses its last reference and is destroyed
start_playback_tracking(s, start_time, end_time) ==
    [s EXCEPT !.playback_line = Some(start_time),
              !.playback_timer =
                  Some([start_time |-> start_time, end_time |-> end_time]),
              !.playback_start_time = Some(start_time),
              !.playback_current_time = Some(start_time)]

stop_playback_tracking(s) ==
    [s EXCEPT !.playback_timer = None, !.playback_line = None]

\* update_playback_position that also moves the end line of the word along
update_playback_position_drags_end(s, start_time, end_time) ==
    IF s.playback_line = None THEN s
    ELSE
      LET t == Get(s.playback_current_time) + Hundredth
          s1 == [s EXCEPT !.playback_current_time = Some(t),
                          !.playback_line = Some(t),
                          !.c_end_time = Some(t)]
      IN  IF t >= end_time THEN stop_playback_tracking(s1) ELSE s1

\* the timer's slot, every 10 ms
update_playback_position(s, start_time, end_time) ==
    IF s.playback_line = None THEN s
    ELSE
      LET t == Get(s.playback_current_time) + Hundredth
          s1 == [s EXCEPT !.playback_current_time = Some(t),
                          !.playback_line = Some(t)]
      IN  IF t >= end_time THEN stop_playback_tracking(s1) ELSE s1

\* sd.play starts the sound and returns; the slice played is not part of the state
play_audio(s, with_padding) ==
    IF s.c_start_time = None \/ s.c_end_time = None
    THEN show_error(s, "Start or end time not set")
    ELSE IF s.c_audio_data = None THEN show_error(s, "Audio data not loaded")
    ELSE
      LET start_time == IF with_padding
                        THEN max(0, Get(s.c_start_time) - padding_s)
                        ELSE Get(s.c_start_time)
          end_time == IF with_padding
                      THEN min(audio_seconds(Get(s.c_audio_data)),
                               Get(s.c_end_time) + padding_s)
                      ELSE Get(s.c_end_time)
      IN  start_playback_tracking(s, start_time, end_time)

play_context(s) == play_audio(s, TRUE)

\* load_audio_file that does not put the cursor back to 0
load_audio_file_keep_index(s, sub_id) ==
    LET pre == pre_annotated(sub_id)
        created == s.output_files[sub_id] = None
        files == IF created
                 THEN [s.output_files EXCEPT ![sub_id] =
                         Some(to_csv(add_output_columns(pre.columns, read_csv(pre))))]
                 ELSE s.output_files
        rating_df == read_csv(Get(files[sub_id]))
    IN  IF created /\ ~(needed_columns \subseteq pre.columns)
        THEN show_error(s, "COLUMN NOT FOUND")
        ELSE IF ~(needed_output_columns \subseteq Get(files[sub_id]).columns)
        THEN show_error([s EXCEPT !.output_files = files], "COLUMN NOT FOUND")
        ELSE show_current_word(
               [s EXCEPT !.output_files = files,
                         !.c_rating_df = Some(rating_df),
                         !.c_sub_id = Some(sub_id),
                         !.c_audio_data = Some(sub_id)])

\* sub_id: the item selected in the subject list
load_audio_file(s, sub_id) ==
    LET pre == pre_annotated(sub_id)
        created == s.output_files[sub_id] = None
        files == IF created
                 THEN [s.output_files EXCEPT ![sub_id] =
                         Some(to_csv(add_output_columns(pre.columns, read_csv(pre))))]
                 ELSE s.output_files
        rating_df == read_csv(Get(files[sub_id]))
    IN  IF created /\ ~(needed_columns \subseteq pre.columns)
        THEN show_error(s, "COLUMN NOT FOUND")
        ELSE IF ~(needed_output_columns \subseteq Get(files[sub_id]).columns)
        THEN show_error([s EXCEPT !.output_files = files], "COLUMN NOT FOUND")
        ELSE show_current_word(
               [s EXCEPT !.output_files = files,
                         !.c_rating_df = Some(rating_df),
                         !.c_sub_id = Some(sub_id),
                         !.c_audio_data = Some(sub_id),
                         !.c_word_index = 0])

-----------------------------------------------------------------------------
(* The start of the program: the settings file, the setup dialog, the       *)
(* subject list.  A file name and a text typed into the dialog are          *)
(* sequences of characters; a directory is named by a string.               *)

\* the directory the program is started in, where Path("wavescribe_settings.json") is
CWD == "."
\* the directories a data folder may name; "gone" does not exist
DataDirs == {".", "data", "gone"}

\* the stems of the files found in the data directories
Sub01 == << "s", "u", "b", "-", "0", "1" >>
Sub02 == << "s", "u", "b", "-", "0", "2" >>
Sub02Words == << "s", "u", "b", "-", "0", "2", "_", "w" >>
SubX == << "s", "u", "b", "-", "x" >>
Notes == << "n", "o", "t", "e", "s" >>

File(stem, suffix) == [stem |-> stem, suffix |-> suffix]

\* Path.glob("*" + suffix) of a directory; a directory that is missing has no match
glob(directory, suffix) ==
    IF directory = None THEN {}
    ELSE { f \in Get(directory) : f.suffix = suffix }

IsDigit(ch) == ch \in {"0", "1", "2", "3", "4", "5", "6", "7", "8", "9"}

\* the longest run of digits a text starts with
RECURSIVE digits(_)
digits(w) ==
    IF w # << >> /\ IsDigit(Head(w)) THEN << Head(w) >> \o digits(Tail(w))
    ELSE << >>

\* re.match(r"^sub-[0-9]+", stem): None, or group(0)
re_match(stem) ==
    IF /\ Len(stem) >= 5
       /\ SubSeq(stem, 1, 4) = << "s", "u", "b", "-" >>
       /\ IsDigit(stem[5])
    THEN Some(<< "s", "u", "b", "-" >> \o digits(SubSeq(stem, 5, Len(stem))))
    ELSE None

\* the characters of the file names in code point order, and str.__lt__
Alphabet ==
    << "-", "0", "1", "2", "_", "b", "e", "n", "o", "s", "t", "u", "w", "x" >>
ord(ch) == CHOOSE k \in 1..Len(Alphabet) : Alphabet[k] = ch

RECURSIVE str_lt(_, _)
str_lt(a, b) ==
    IF b = << >> THEN FALSE
    ELSE IF a = << >> THEN TRUE
    ELSE IF Head(a) = Head(b) THEN str_lt(Tail(a), Tail(b))
    ELSE ord(Head(a)) < ord(Head(b))

\* sorted(list(keys))
RECURSIVE sorted(_)
sorted(S) ==
    IF S = {} THEN << >>
    ELSE LET least == CHOOSE a \in S : \A b \in S \ {a} : str_lt(a, b)
         IN  << least >> \o sorted(S \ {least})

\* update_sub_list that lists every subject with a pre-annotated file
update_sub_list_pre_only(fs, dir, old_list) ==
    LET pre_annotated_paths == glob(Get(fs.dirs[dir]).pre_annotated, ".csv")
        audio_paths == glob(Get(fs.dirs[dir]).audio, ".wav")
        sub_ids_pre_annotated ==
            { Get(re_match(f.stem)) :
                f \in { g \in pre_annotated_paths : re_match(g.stem) # None } }
    IN  IF pre_annotated_paths = {} \/ audio_paths = {}
        THEN [sub_list |-> old_list, messages |-> << "MISSING DATA ERROR" >>]
        ELSE [sub_list |-> sorted(sub_ids_pre_annotated), messages |-> << >>]

\* the subject list of the window whose data directory is dir; old_list is
\* what the list shows before the call
update_sub_list(fs, dir, old_list) ==
    LET pre_annotated_paths == glob(Get(fs.dirs[dir]).pre_annotated, ".csv")
        audio_paths == glob(Get(fs.dirs[dir]).audio, ".wav")
        sub_ids_pre_annotated ==
            { Get(re_match(f.stem)) :
                f \in { g \in pre_annotated_paths : re_match(g.stem) # None } }
        sub_ids_with_paths ==
            { Get(re_match(f.stem)) :
                f \in { g \in audio_paths :
                          /\ re_match(g.stem) # None
                          /\ Get(re_match(g.stem)) \in sub_ids_pre_annotated } }
    IN  IF pre_annotated_paths = {} \/ audio_paths = {}
        THEN [sub_list |-> old_list, messages |-> << "MISSING DATA ERROR" >>]
        ELSE [sub_list |-> sorted(sub_ids_with_paths), messages |-> << >>]

\* json.load of the settings file and settings.get of the two keys: a file
\* that is missing or is not JSON gives (None, None), a missing key None
load_settings(fs, settings_dir) ==
    LET file == fs.settings[settings_dir]
    IN  IF file = None \/ ~Get(file).json THEN << None, None >>
        ELSE << Get(file).data_dir, Get(file).rater_name >>

\* json.dump of the two values into the settings file of settings_dir
save_settings(fs, settings_dir, new_data_dir, new_rater_name) ==
    [fs EXCEPT !.settings[settings_dir] =
        Some([json |-> TRUE, data_dir |-> Some(new_data_dir),
              rater_name |-> Some(new_rater_name)])]

\* AudioAnnotator(data_dir, rater_name): output_dir.mkdir(parents=True,
\* exist_ok=True) makes the data directory if it is missing, then the subject
\* list is filled; shown: the dialogs main has shown before
AudioAnnotator(fs, new_data_dir, new_rater_name, shown) ==
    LET made == [fs EXCEPT !.dirs[new_data_dir] =
                    IF @ = None
                    THEN Some([pre_annotated |-> None, audio |-> None,
                               output |-> TRUE])
                    ELSE Some([Get(@) EXCEPT !.output = TRUE])]
        listed == update_sub_list(made, new_data_dir, << >>)
    IN  [ file_system |-> made, main_pc |-> "window",
          data_dir |-> Some(new_data_dir), rater_name |-> new_rater_name,
          sub_list |-> listed.sub_list, messages |-> shown \o listed.messages ]

\* sys.exit(code) before a window exists
exit(fs, code, shown) ==
    [ file_system |-> fs, main_pc |-> code, data_dir |-> None,
      rater_name |-> None, sub_list |-> << >>, messages |-> shown ]

\* dialog: what the user does with the setup dialog if it is shown
main(fs, dialog) ==
    LET loaded == load_settings(fs, CWD)
        new_data_dir == dialog.data_dir
        new_rater_name == strip(dialog.rater_name)
        invalid == << "Configuration", "Invalid Data Directory" >>
    IN  IF loaded[1] # None /\ loaded[2] # None
        THEN AudioAnnotator(fs, Get(loaded[1]), Get(loaded[2]), << >>)
        ELSE IF ~dialog.accepted THEN exit(fs, "exit 0", << "Configuration" >>)
        ELSE IF fs.dirs[new_data_dir] = None THEN exit(fs, "exit 1", invalid)
        ELSE IF Get(fs.dirs[new_data_dir]).pre_annotated = None
        THEN exit(fs, "exit 1", invalid)
        ELSE
          LET shown == IF Get(fs.dirs[new_data_dir]).audio = None
                       THEN invalid ELSE << "Configuration" >>
          IN  IF new_rater_name = << >>
              THEN exit(fs, "exit 1", Append(shown, "Invalid Rater Initials"))
              ELSE AudioAnnotator(
                     save_settings(fs, new_data_dir, new_data_dir, new_rater_name),
                     new_data_dir, new_rater_name, shown)

\* the data directory of the sessions modelled below: two subjects
DefaultFileSystem ==
    [ settings |-> [d \in DataDirs |-> None],
      dirs |-> [d \in DataDirs |->
                  IF d = "data"
                  THEN Some([ pre_annotated |->
                                Some({ File(Sub01, ".csv"), File(Sub02, ".csv") }),
                              audio |->
                                Some({ File(Sub01, ".wav"), File(Sub02, ".wav") }),
                              output |-> TRUE ])
                  ELSE None] ]

\* what may be on disk when the program is started
PreAnnotatedFiles ==
    { File(Sub01, ".csv"), File(Sub02Words, ".csv"), File(Notes, ".csv"),
      File(Sub02, ".txt") }
AudioFiles ==
    { File(Sub01, ".wav"), File(Sub02, ".wav"), File(SubX, ".wav") }

Directories ==
    { None } \cup
    { Some([pre_annotated |-> p, audio |-> a, output |-> FALSE]) :
        p \in { None } \cup { Some(F) : F \in SUBSET PreAnnotatedFiles },
        a \in { None } \cup { Some(F) : F \in SUBSET AudioFiles } }

SettingsFiles ==
    { None,
      Some([json |-> FALSE, data_dir |-> None, rater_name |-> None]),
      Some([json |-> TRUE, data_dir |-> Some("data"), rater_name |-> None]),
      Some([json |-> TRUE, data_dir |-> Some("data"),
            rater_name |-> Some(<< "G", "K" >>)]),
      Some([json |-> TRUE, data_dir |-> Some("data"), rater_name |-> Some(<< >>)]),
      Some([json |-> TRUE, data_dir |-> Some("gone"),
            rater_name |-> Some(<< "G", "K" >>)]) }

DialogInputs ==
    [ accepted : BOOLEAN, data_dir : DataDirs,
      rater_name : { << "G", "K", " " >>, << " " >> } ]

-----------------------------------------------------------------------------
(* The specifications: the events that run the slots *)

Init ==
    /\ file_system = DefaultFileSystem
    /\ main_pc = "window"
    /\ data_dir = Some("data")
    /\ sub_list = update_sub_list(DefaultFileSystem, "data", << >>).sub_list
    /\ rater_name \in RaterNames
    /\ c_audio_data = None
    /\ c_word_index = 0
    /\ c_rating_df = None
    /\ c_start_time = None
    /\ c_end_time = None
    /\ c_changed_times = FALSE
    /\ c_sub_id = None
    /\ word_text_edit = << >>
    /\ context_list = << >>
    /\ next_button = FALSE
    /\ prev_button = FALSE
    /\ split_button = FALSE
    /\ delete_button = FALSE
    /\ reset_button = FALSE
    /\ play_button = FALSE
    /\ play_context_button = FALSE
    /\ playback_line = None
    /\ playback_timer = None
    /\ playback_start_time = None
    /\ playback_current_time = None
    /\ output_files = [sub \in Subjects |-> None]
    /\ messages = << >>
    /\ crashed = FALSE
    /\ ninputs = 0
    /\ last_op = [op |-> "__init__", arg |-> None, index |-> 0]

\* the slot starts with no message box shown; its result becomes the state
Start == [St EXCEPT !.messages = << >>]

Run(op, arg, s) ==
    /\ ~crashed
    /\ main_pc = "window"
    /\ last_op' = [op |-> op, arg |-> arg, index |-> c_word_index]
    /\ UNCHANGED << file_system, main_pc, data_dir, sub_list >>
    /\ rater_name' = s.rater_name
    /\ c_audio_data' = s.c_audio_data
    /\ c_word_index' = s.c_word_index
    /\ c_rating_df' = s.c_rating_df
    /\ c_start_time' = s.c_start_time
    /\ c_end_time' = s.c_end_time
    /\ c_changed_times' = s.c_changed_times
    /\ c_sub_id' = s.c_sub_id
    /\ word_text_edit' = s.word_text_edit
    /\ context_list' = s.context_list
    /\ next_button' = s.next_button
    /\ prev_button' = s.prev_button
    /\ split_button' = s.split_button
    /\ delete_button' = s.delete_button
    /\ reset_button' = s.reset_button
    /\ play_button' = s.play_button
    /\ play_context_button' = s.play_context_button
    /\ playback_line' = s.playback_line
    /\ playback_timer' = s.playback_timer
    /\ playback_start_time' = s.playback_start_time
    /\ playback_current_time' = s.playback_current_time
    /\ output_files' = s.output_files
    /\ messages' = s.messages
    /\ crashed' = s.crashed

\* An event runs a slot.  With gui, only an event the widgets can deliver: a
\* click on an enabled button, on an item the context list shows; without, the
\* slot is called whatever the widgets show (the session's operation invoked
\* directly, with any item).
Load ==
    \E sub_id \in Subjects :
        /\ Run("load_audio_file", sub_id, load_audio_file(Start, sub_id))
        /\ UNCHANGED ninputs

EditText ==
    \E text \in TextInputs :
        /\ ninputs < MaxInputs
        /\ text # word_text_edit
        /\ Run("setText", text, [Start EXCEPT !.word_text_edit = text])
        /\ ninputs' = ninputs + 1

\* the lines exist once show_current_word has drawn them
DragStartLine ==
    \E x \in DragTimes :
        /\ ninputs < MaxInputs
        /\ c_start_time # None
        /\ x # Get(c_start_time)
        /\ Run("on_start_line_moved", x, on_start_line_moved(Start, x))
        /\ ninputs' = ninputs + 1

DragEndLine ==
    \E x \in DragTimes :
        /\ ninputs < MaxInputs
        /\ c_end_time # None
        /\ x # Get(c_end_time)
        /\ Run("on_end_line_moved", x, on_end_line_moved(Start, x))
        /\ ninputs' = ninputs + 1

ClickNext(gui) ==
    /\ gui => next_button
    /\ Run("next_word", None, next_word(Start))
    /\ UNCHANGED ninputs

ClickPrev(gui) ==
    /\ gui => prev_button
    /\ Run("prev_word", None, prev_word(Start))
    /\ UNCHANGED ninputs

\* the items a click can name: those shown, or any index up to one past the end
Items(gui) ==
    IF gui THEN { context_list[k] : k \in 1..Len(context_list) }
    ELSE { format_03d(i) :
             i \in 0..(IF c_rating_df = None THEN 0 ELSE Len(Get(c_rating_df))) }

ClickContextItem(gui) ==
    \E item \in Items(gui) :
        /\ Run("on_context_item_clicked", item, on_context_item_clicked(Start, item))
        /\ UNCHANGED ninputs

ClickReset(gui) ==
    /\ gui => reset_button
    /\ Run("reset_word", None, reset_word(Start))
    /\ UNCHANGED ninputs

ClickSplit(gui) ==
    /\ gui => split_button
    /\ ninputs < MaxInputs
    /\ Run("split_word", None, split_word(Start))
    /\ ninputs' = ninputs + 1

ClickDelete(gui) ==
    \E reply \in {"Yes", "No"} :
        /\ gui => delete_button
        /\ Run("delete_word", reply, delete_word(Start, reply))
        /\ UNCHANGED ninputs

\* the commit on its own (the slots reach it through next, prev and the list)
CallSaveRating ==
    /\ Run("save_rating", None, save_rating(Start))
    /\ UNCHANGED ninputs

Next ==
    \/ Load
    \/ CallSaveRating
    \/ EditText
    \/ DragStartLine
    \/ DragEndLine
    \/ ClickNext(FALSE)
    \/ ClickPrev(FALSE)
    \/ ClickContextItem(FALSE)
    \/ ClickReset(FALSE)
    \/ ClickSplit(FALSE)
    \/ ClickDelete(FALSE)

Spec == Init /\ [][Next]_vars

NextGui ==
    \/ Load
    \/ EditText
    \/ DragStartLine
    \/ DragEndLine
    \/ ClickNext(TRUE)
    \/ ClickPrev(TRUE)
    \/ ClickContextItem(TRUE)
    \/ ClickReset(TRUE)
    \/ ClickSplit(TRUE)
    \/ ClickDelete(TRUE)

SpecGui == Init /\ [][NextGui]_vars

\* The program from its start: main runs, and the window it opens is closed
\* again.  The files on disk are what the runs before have left.
InitMain ==
    /\ file_system \in
           { [ settings |-> [d \in DataDirs |-> IF d = CWD THEN f ELSE None],
               dirs |-> [d \in DataDirs |->
                           CASE d = "data" -> dir
                             [] d = CWD ->
                                  Some([ pre_annotated |-> Some({ File(Sub01, ".csv") }),
                                         audio |-> Some({ File(Sub01, ".wav") }),
                                         output |-> FALSE ])
                             [] OTHER -> None] ] :
               f \in SettingsFiles, dir \in Directories }
    /\ main_pc = "not started"
    /\ data_dir = None
    /\ sub_list = << >>
    /\ rater_name = None
    /\ c_audio_data = None
    /\ c_word_index = 0
    /\ c_rating_df = None
    /\ c_start_time = None
    /\ c_end_time = None
    /\ c_changed_times = FALSE
    /\ c_sub_id = None
    /\ word_text_edit = << >>
    /\ context_list = << >>
    /\ next_button = FALSE
    /\ prev_button = FALSE
    /\ split_button = FALSE
    /\ delete_button = FALSE
    /\ reset_button = FALSE
    /\ play_button = FALSE
    /\ play_context_button = FALSE
    /\ playback_line = None
    /\ playback_timer = None
    /\ playback_start_time = None
    /\ playback_current_time = None
    /\ output_files = [sub \in Subjects |-> None]
    /\ messages = << >>
    /\ crashed = FALSE
    /\ ninputs = 0
    /\ last_op = [op |-> "start", arg |-> None, index |-> 0]

session == << c_audio_data, c_word_index, c_rating_df, c_start_time, c_end_time,
             c_changed_times, c_sub_id, word_text_edit, context_list,
             next_button, prev_button, split_button, delete_button, reset_button,
             play_button, play_context_button, playback_line, playback_timer,
             playback_start_time, playback_current_time, output_files, crashed,
             ninputs >>

\* one run of main up to the window or to sys.exit; arg: the dialog input if
\* the dialog was shown
RunMain ==
    \E dialog \in DialogInputs :
        LET r == main(file_system, dialog)
        IN  /\ main_pc # "window"
            /\ file_system' = r.file_system
            /\ main_pc' = r.main_pc
            /\ data_dir' = r.data_dir
            /\ rater_name' = r.rater_name
            /\ sub_list' = r.sub_list
            /\ messages' = r.messages
            /\ last_op' = [op |-> "main",
                           arg |-> IF r.messages # << >> /\ r.messages[1] = "Configuration"
                                   THEN Some(dialog) ELSE None,
                           index |-> 0]
            /\ UNCHANGED session

\* the window is closed: app.exec() returns and the process exits
CloseWindow ==
    /\ main_pc = "window"
    /\ main_pc' = "exit 0"
    /\ data_dir' = None
    /\ rater_name' = None
    /\ sub_list' = << >>
    /\ messages' = << >>
    /\ last_op' = [op |-> "closeEvent", arg |-> None, index |-> 0]
    /\ UNCHANGED << file_system, session >>

NextMain ==
    \/ RunMain
    \/ CloseWindow

SpecMain == InitMain /\ [][NextMain]_vars

\* The playback: the two play buttons and the timer that moves the blue line.
\* Qt runs the timer's slot between two other slots, never inside one.
ClickPlay(gui) ==
    /\ gui => play_button
    /\ ninputs < MaxInputs
    /\ Run("play_audio", None, play_audio(Start, FALSE))
    /\ ninputs' = ninputs + 1

ClickPlayContext(gui) ==
    /\ gui => play_context_button
    /\ ninputs < MaxInputs
    /\ Run("play_context", None, play_context(Start))
    /\ ninputs' = ninputs + 1

TimerTimeout ==
    /\ playback_timer # None
    /\ Get(playback_current_time) - Get(playback_start_time) < MaxTicks * Hundredth
    /\ Run("update_playback_position", None,
           update_playback_position(Start, Get(playback_timer).start_time,
                                    Get(playback_timer).end_time))
    /\ UNCHANGED ninputs

NextPlayback ==
    \/ Load
    \/ EditText
    \/ DragStartLine
    \/ DragEndLine
    \/ ClickNext(TRUE)
    \/ ClickPrev(TRUE)
    \/ ClickContextItem(TRUE)
    \/ ClickReset(TRUE)
    \/ ClickSplit(TRUE)
    \/ ClickDelete(TRUE)
    \/ ClickPlay(TRUE)
    \/ ClickPlayContext(TRUE)
    \/ TimerTimeout

SpecPlayback == Init /\ [][NextPlayback]_vars

-----------------------------------------------------------------------------
(* Sanity of the model *)

\* the midpoint of a split is exact on the tick grid
SplitExact ==
    (c_start_time # None /\ c_end_time # None /\ ninputs < MaxInputs)
        => (Get(c_start_time) + Get(c_end_time)) % 2 = 0

\* while the window lives, the record under the cursor has a text
CurrentRowHasText ==
    (c_rating_df # None /\ ~crashed /\ Len(Get(c_rating_df)) > 0)
        => /\ c_word_index \in 0..(Len(Get(c_rating_df)) - 1)
           /\ Get(c_rating_df)[c_word_index + 1].transcription # NaNText

\* the table in memory is the one of the loaded subject's output file
TableIsPersisted ==
    (c_rating_df # None /\ c_sub_id # None /\ ~crashed)
        => output_files[Get(c_sub_id)] = Some(to_csv(Get(c_rating_df)))

-----------------------------------------------------------------------------
(* The claims *)

NavOps == {"next_word", "prev_word", "on_context_item_clicked"}
CommitOps == {"save_rating"} \cup NavOps
PersistOps == CommitOps \cup {"split_word", "delete_word"}

\* a table is loaded and has a record
HasRecords == c_rating_df # None /\ c_audio_data # None /\ Len(Get(c_rating_df)) > 0

\* the pending text normalizes to another word than the stored one
TextDiffers ==
    normalize_word(word_text_edit)
        # normalize_word(Get(c_rating_df)[c_word_index + 1].transcription)

\* a pending boundary is not the stored one
BoundaryDiffers ==
    \/ Get(c_start_time) # Get(c_rating_df)[c_word_index + 1].start
    \/ Get(c_end_time) # Get(c_rating_df)[c_word_index + 1].end

\* the step wrote the pending edit into the record under the cursor
RecordUpdated ==
    LET new == Get(c_rating_df')[c_word_index + 1]
    IN  /\ new.transcription = normalize_word(word_text_edit)
        /\ new.start = round2(Get(c_start_time))
        /\ new.end = round2(Get(c_end_time))
        /\ new.changed

\* the step left text, boundaries and changed of the record under the cursor alone
RecordKept ==
    LET old == Get(c_rating_df)[c_word_index + 1]
        new == Get(c_rating_df')[c_word_index + 1]
    IN  /\ new.transcription = old.transcription
        /\ new.start = old.start
        /\ new.end = old.end
        /\ new.changed = old.changed

\* the step made save_rating's commit on the record under the cursor and
\* wrote the table to the output file
CommitDone ==
    /\ Len(Get(c_rating_df')) = Len(Get(c_rating_df))
    /\ Get(c_rating_df')[c_word_index + 1].rater = rater_name
    /\ IF TextDiffers \/ c_changed_times THEN RecordUpdated ELSE RecordKept
    /\ output_files'[Get(c_sub_id)] = Some(to_csv(Get(c_rating_df')))

\* after the step the text box and the pending times show the record under the cursor
PendingIsCurrent ==
    /\ word_text_edit = Get(c_rating_df)[c_word_index + 1].transcription
    /\ c_start_time = Some(Get(c_rating_df)[c_word_index + 1].start)
    /\ c_end_time = Some(Get(c_rating_df)[c_word_index + 1].end)

\* C1: whenever the loaded table is non-empty, 0 <= cursor <= len(table) - 1,
\* after any sequence of load, navigation, commit, boundary moves, reset,
\* split and delete.
C1_CursorInRange ==
    (c_rating_df # None /\ Len(Get(c_rating_df)) > 0)
        => (0 <= c_word_index /\ c_word_index <= Len(Get(c_rating_df)) - 1)

\* the last record was deleted and the cursor stepped back onto the new last one
C1_Witness ==
    /\ last_op.op = "delete_word"
    /\ last_op.arg = "Yes"
    /\ c_rating_df # None
    /\ Len(Get(c_rating_df)) >= 1
    /\ last_op.index = Len(Get(c_rating_df))
    /\ c_word_index = Len(Get(c_rating_df)) - 1

C3_PersistedIsWholeTable ==
    (last_op.op \in PersistOps /\ c_rating_df # None /\ c_sub_id # None /\ ~crashed)
        => /\ output_files[Get(c_sub_id)] # None
           /\ Len(Get(output_files[Get(c_sub_id)]).rows) = Len(Get(c_rating_df))
           /\ Get(output_files[Get(c_sub_id)]) = to_csv(Get(c_rating_df))

\* a split has grown the table and the file holds the three records
C3_Witness ==
    /\ last_op.op = "split_word"
    /\ ~crashed
    /\ c_rating_df # None
    /\ c_sub_id # None
    /\ Len(Get(c_rating_df)) = 3
    /\ output_files[Get(c_sub_id)] # None
    /\ Len(Get(output_files[Get(c_sub_id)]).rows) = 3

\* C4: after a load that succeeds on a table with at least one record, the
\* session holds that table and subject, the cursor is 0 and the text box and
\* the pending start and end are those of record 0.
C4_LoadShowsFirstRecord ==
    (/\ last_op.op = "load_audio_file"
     /\ ~crashed
     /\ messages = << >>
     /\ output_files[last_op.arg] # None
     /\ Len(Get(output_files[last_op.arg]).rows) >= 1)
        => /\ c_sub_id = Some(last_op.arg)
           /\ c_rating_df = Some(read_csv(Get(output_files[last_op.arg])))
           /\ c_word_index = 0
           /\ word_text_edit = Get(c_rating_df)[1].transcription
           /\ c_start_time = Some(Get(c_rating_df)[1].start)
           /\ c_end_time = Some(Get(c_rating_df)[1].end)

\* a load that succeeded while the cursor of the session before it was not 0
C4_Witness ==
    /\ last_op.op = "load_audio_file"
    /\ last_op.index > 0
    /\ ~crashed
    /\ messages = << >>
    /\ c_rating_df # None
    /\ Len(Get(c_rating_df)) >= 1
    /\ c_word_index = 0

\* C5: a commit compares the normalized pending text and the pending boundary
\* values with the stored ones: if one differs the record gets the normalized
\* text and the rounded times, changed is set and timesChanged cleared; if
\* none differs the record's text, times and changed flag stay as they were.
C5_CommitComparesValues ==
    [][ (last_op'.op \in CommitOps /\ HasRecords)
        => IF TextDiffers \/ BoundaryDiffers
           THEN RecordUpdated /\ ~c_changed_times'
           ELSE RecordKept
      ]_vars

\* C6: every commit stamps the rater of the record, and a commit whose text
\* normalizes to the stored word, with boundaries equal to the stored ones,
\* does not set changed.
C6_RaterStampedChangedKept ==
    [][ (last_op'.op \in CommitOps /\ HasRecords)
        => /\ Get(c_rating_df')[c_word_index + 1].rater = rater_name
           /\ (~TextDiffers /\ ~BoundaryDiffers)
                => Get(c_rating_df')[c_word_index + 1].changed
                     = Get(c_rating_df)[c_word_index + 1].changed
      ]_vars

NextThenPrev ==
    LET s1 == next_word(Start)
    IN  IF s1.crashed THEN s1 ELSE prev_word([s1 EXCEPT !.messages = << >>])

\* after next and then prev the cursor is where it was, and the text box and
\* the pending times show what the commit left in that record
BackOnCommitted ==
    LET s2 == NextThenPrev
        old == Get(c_rating_df)[c_word_index + 1]
        new == Get(s2.c_rating_df)[c_word_index + 1]
    IN  /\ s2.c_word_index = c_word_index
        /\ s2.word_text_edit = new.transcription
        /\ s2.c_start_time = Some(new.start)
        /\ s2.c_end_time = Some(new.end)
        /\ IF TextDiffers \/ c_changed_times
           THEN /\ new.transcription = normalize_word(word_text_edit)
                /\ new.start = round2(Get(c_start_time))
                /\ new.end = round2(Get(c_end_time))
           ELSE /\ new.transcription = old.transcription
                /\ new.start = old.start
                /\ new.end = old.end

CommitOnce == save_rating(Start)
CommitTwice == save_rating([CommitOnce EXCEPT !.messages = << >>])

\* C11: from every loaded state, a second commit of the same text and
\* boundaries leaves the table in memory and the output files as the first
\* commit left them.
C11_CommitIdempotent ==
    (HasRecords /\ ~crashed)
        => /\ ~CommitOnce.crashed
           /\ ~CommitTwice.crashed
           /\ CommitTwice.c_rating_df = CommitOnce.c_rating_df
           /\ CommitTwice.output_files = CommitOnce.output_files

\* a commit has just rewritten the record under the cursor from a pending
\* text and drag; committing again changes nothing
C11_Witness ==
    /\ last_op.op = "save_rating"
    /\ HasRecords
    /\ ~crashed
    /\ Get(c_rating_df)[c_word_index + 1].changed
    /\ Get(c_rating_df)[c_word_index + 1].transcription = normalize_word(word_text_edit)
    /\ Get(c_rating_df)[c_word_index + 1].end = round2(Get(c_end_time))
    /\ Get(c_end_time) # round2(Get(c_end_time))
    /\ CommitOnce.c_rating_df = c_rating_df
    /\ CommitOnce.output_files = output_files

\* the drag of a line is refused: the start at or beyond the pending end, the
\* end at or before the pending start
StartRefused ==
    /\ last_op'.op = "on_start_line_moved"
    /\ c_end_time # None
    /\ last_op'.arg >= Get(c_end_time)

EndRefused ==
    /\ last_op'.op = "on_end_line_moved"
    /\ c_start_time # None
    /\ last_op'.arg <= Get(c_start_time)

\* C12: a refused move of a boundary is a no-op: the pending start and end
\* keep their values and the call does not set timesChanged.
C12_RefusedMoveIsNoOp ==
    [][ (StartRefused \/ EndRefused)
        => /\ c_start_time' = c_start_time
           /\ c_end_time' = c_end_time
           /\ c_changed_times' = c_changed_times
      ]_vars

\* C13: an accepted move of a boundary sets the pending start (resp. end) to
\* x and timesChanged to true, and leaves the other pending time, the text
\* box, the table, the cursor and the output files as they were.
C13_AcceptedMoveIsPending ==
    [][ /\ (last_op'.op = "on_start_line_moved" /\ ~StartRefused)
            => /\ c_start_time' = Some(last_op'.arg)
               /\ c_end_time' = c_end_time
               /\ c_changed_times'
               /\ UNCHANGED << c_rating_df, c_word_index, output_files,
                               word_text_edit, c_sub_id >>
        /\ (last_op'.op = "on_end_line_moved" /\ ~EndRefused)
            => /\ c_end_time' = Some(last_op'.arg)
               /\ c_start_time' = c_start_time
               /\ c_changed_times'
               /\ UNCHANGED << c_rating_df, c_word_index, output_files,
                               word_text_edit, c_sub_id >>
      ]_vars

\* the end line was dragged and taken: pending, flagged, the record and the
\* file still hold the old end
C13_Witness ==
    /\ last_op.op = "on_end_line_moved"
    /\ HasRecords
    /\ c_end_time = Some(last_op.arg)
    /\ c_changed_times
    /\ Get(c_rating_df)[c_word_index + 1].end # last_op.arg
    /\ Get(c_rating_df)[c_word_index + 1].end # round2(last_op.arg)
    /\ output_files[Get(c_sub_id)] = Some(to_csv(Get(c_rating_df)))

\* C14: reset clears timesChanged and reloads the pending text, start and end
\* from the stored record under the cursor; the table, the cursor and the
\* output files are as they were.
C14_ResetDiscardsPending ==
    [][ (last_op'.op = "reset_word" /\ HasRecords)
        => /\ ~c_changed_times'
           /\ PendingIsCurrent'
           /\ ~crashed'
           /\ UNCHANGED << c_rating_df, c_word_index, output_files, c_sub_id >>
      ]_vars

\* a reset right after a drag: the flag is clear, the pending time is the
\* stored one again, and the record was never marked
C14_Witness ==
    /\ last_op.op = "reset_word"
    /\ HasRecords
    /\ ~crashed
    /\ ninputs > 0
    /\ ~c_changed_times
    /\ c_end_time = Some(Get(c_rating_df)[c_word_index + 1].end)
    /\ ~Get(c_rating_df)[c_word_index + 1].changed

\* the step is a split of the record under the cursor of a loaded table
SplitStep ==
    /\ last_op'.op = "split_word"
    /\ HasRecords
    /\ c_start_time # None
    /\ c_end_time # None

\* C15: a split makes the table one record longer: the records before the
\* cursor stay, those after it are found one place further, the record under
\* the cursor gives way to two copies of it at cursor and cursor + 1 (marked
\* split 1 and split 2, the first keeping its start, the second its end), the
\* cursor stays and the table is written to the output file.
C15_SplitInsertsOneRecord ==
    [][ SplitStep
        => LET i == c_word_index + 1
               old == Get(c_rating_df)
               new == Get(c_rating_df')
           IN  /\ Len(new) = Len(old) + 1
               /\ \A j \in 1..(i - 1) : new[j] = old[j]
               /\ \A j \in (i + 1)..Len(old) : new[j + 1] = old[j]
               /\ [new[i] EXCEPT !.end = old[i].end]
                    = [old[i] EXCEPT !.transcription = @ \o Split1Suffix]
               /\ [new[i + 1] EXCEPT !.start = old[i].start]
                    = [old[i] EXCEPT !.transcription = @ \o Split2Suffix]
               /\ c_word_index' = c_word_index
               /\ ~crashed'
               /\ output_files'[Get(c_sub_id)] = Some(to_csv(new))
      ]_vars

\* the first of two records was split: three records, the old second one is
\* now the third, the cursor is still 0
C15_Witness ==
    /\ last_op.op = "split_word"
    /\ last_op.index = 0
    /\ HasRecords
    /\ ~crashed
    /\ c_word_index = 0
    /\ Len(Get(c_rating_df)) = 3
    /\ Get(c_rating_df)[3].transcription = << "d", "o", "g" >>
    /\ Get(c_rating_df)[1].transcription = << "C", "a", "t" >> \o Split1Suffix
    /\ Get(c_rating_df)[2].transcription = << "C", "a", "t" >> \o Split2Suffix

\* C16 as stated: the first new record ends at mid - 0.1 and the second
\* starts at mid + 0.1, mid being the middle of the start and end stored in
\* the record that was split.
C16_SplitAtStoredMiddle ==
    [][ SplitStep
        => LET i == c_word_index + 1
               old == Get(c_rating_df)[i]
               new == Get(c_rating_df')
           IN  /\ 2 * (new[i].end + Tenth) = old.start + old.end
               /\ 2 * (new[i + 1].start - Tenth) = old.start + old.end
      ]_vars

\* C16: the first new record ends at mid - 0.1 and the second starts at
\* mid + 0.1, mid being the middle of the pending start and end; a record
\* 2.0 .. 4.0 with nothing pending gives 2.9 and 3.1.
C16_SplitAtPendingMiddle ==
    [][ SplitStep
        => LET i == c_word_index + 1
               new == Get(c_rating_df')
           IN  /\ 2 * (new[i].end + Tenth) = Get(c_start_time) + Get(c_end_time)
               /\ 2 * (new[i + 1].start - Tenth) = Get(c_start_time) + Get(c_end_time)
      ]_vars

\* the record 2.0 .. 4.0 was split: 2.0 .. 2.9 and 3.1 .. 4.0
C16_Witness ==
    /\ last_op.op = "split_word"
    /\ HasRecords
    /\ ~crashed
    /\ Get(c_rating_df)[c_word_index + 1].start = Ms(2000)
    /\ Get(c_rating_df)[c_word_index + 1].end = Ms(2900)
    /\ Get(c_rating_df)[c_word_index + 2].start = Ms(3100)
    /\ Get(c_rating_df)[c_word_index + 2].end = Ms(4000)

\* C17: a confirmed delete on a table of more than one record removes the
\* record under the cursor and no other: the table is one shorter, the others
\* keep their contents and order, the cursor is min(old cursor, new len - 1)
\* and the table is written to the output file.
C17_DeleteRemovesCurrent ==
    [][ (/\ last_op'.op = "delete_word"
         /\ last_op'.arg = "Yes"
         /\ HasRecords
         /\ Len(Get(c_rating_df)) > 1)
        => LET i == c_word_index + 1
               old == Get(c_rating_df)
               new == Get(c_rating_df')
           IN  /\ Len(new) = Len(old) - 1
               /\ \A j \in 1..(i - 1) : new[j] = old[j]
               /\ \A j \in i..Len(new) : new[j] = old[j + 1]
               /\ c_word_index' = IF c_word_index < Len(new) - 1
                                  THEN c_word_index ELSE Len(new) - 1
               /\ output_files'[Get(c_sub_id)] = Some(to_csv(new))
      ]_vars

\* the first of three records was deleted: two are left, the cursor is still
\* 0 and shows the record that was second
C17_Witness ==
    /\ last_op.op = "delete_word"
    /\ last_op.arg = "Yes"
    /\ last_op.index = 0
    /\ HasRecords
    /\ ~crashed
    /\ Len(Get(c_rating_df)) = 2
    /\ c_word_index = 0
    /\ word_text_edit = Get(c_rating_df)[1].transcription

\* C18: a delete on a table of one record fails: an error is reported, the
\* table still holds its one record, the cursor and the output files are as
\* they were.
C18_DeleteOnlyRecordRefused ==
    [][ (/\ last_op'.op = "delete_word"
         /\ last_op'.arg = "Yes"
         /\ HasRecords
         /\ Len(Get(c_rating_df)) = 1)
        => /\ messages' # << >>
           /\ c_rating_df' = c_rating_df
           /\ c_word_index' = c_word_index
           /\ output_files' = output_files
      ]_vars

\* C19: every record of the table has start < end, the imported records
\* having it.
C19_StartBeforeEnd ==
    c_rating_df # None
        => \A i \in 1..Len(Get(c_rating_df)) :
              Get(c_rating_df)[i].start < Get(c_rating_df)[i].end

\* transcription, start and end of the records a subject was imported with
Imported(sub_id) ==
    { << r.transcription, r.start, r.end >> :
        r \in { read_csv(pre_annotated(sub_id))[i] :
                  i \in 1..Len(pre_annotated(sub_id).rows) } }

\* C20: every record whose transcription, start or end is not the one it was
\* imported with has changed = true.
C20_ModifiedIsMarkedChanged ==
    (c_rating_df # None /\ c_sub_id # None)
        => \A i \in 1..Len(Get(c_rating_df)) :
              LET r == Get(c_rating_df)[i]
              IN  << r.transcription, r.start, r.end >> \notin Imported(Get(c_sub_id))
                    => r.changed

\* ---- C21 ----
\* the session has not been loaded
Unloaded == c_rating_df = None /\ c_sub_id = None

\* the message boxes that report a missing session or a navigation boundary
NoDataTitles == {"No data loaded", "Data not loaded", "No previous word"}

\* r, the state a slot returns when run now, is still this unloaded session:
\* no crash, same cursor, same pending buffer, same files
StillUnloaded(r) ==
    /\ ~r.crashed
    /\ r.c_rating_df = None /\ r.c_audio_data = None /\ r.c_sub_id = None
    /\ r.c_word_index = c_word_index
    /\ r.c_start_time = c_start_time /\ r.c_end_time = c_end_time
    /\ r.c_changed_times = c_changed_times
    /\ r.word_text_edit = word_text_edit
    /\ r.output_files = output_files

ReportsNoData(r) ==
    /\ r.messages # << >>
    /\ \A k \in 1..Len(r.messages) : r.messages[k] \in NoDataTitles

\* what next, prev, commit, split and delete return when run now
NoDataResults ==
    { next_word(Start), prev_word(Start), save_rating(Start), split_word(Start) }
        \cup { delete_word(Start, reply) : reply \in {"Yes", "No"} }

JumpResults == { on_context_item_clicked(Start, item) : item \in Items(FALSE) }

EmptyLoaded == c_rating_df # None /\ Len(Get(c_rating_df)) = 0

\* r, the state a slot returns when run now, reports an error or is this state
ReportsOrNothing(r) ==
    /\ ~r.crashed
    /\ r.messages # << >> \/ r = Start
    /\ r.c_rating_df = c_rating_df
    /\ r.output_files = output_files

\* C22: loading a table with no record shows the non-fatal "Empty
\* pre_annotated file" error, and in every state with that table each of next,
\* prev, jumpTo, commit, split and delete reports an error or does nothing,
\* without a crash and without touching the table or the files.
C22_EmptyTableIsSafe ==
    EmptyLoaded =>
        /\ ~crashed
        /\ last_op.op = "load_audio_file"
               => messages = << "Empty pre_annotated file" >>
        /\ \A r \in NoDataResults \cup JumpResults : ReportsOrNothing(r)

\* ---- C23 ----
\* the session holds an edit that no commit has written yet
PendingEdits ==
    /\ HasRecords /\ ~crashed
    /\ c_start_time # None /\ c_end_time # None
    /\ TextDiffers \/ BoundaryDiffers

\* the rows of file hold the pending edit in the record under the cursor
HoldsPendingEdit(file) ==
    /\ file # None
    /\ Len(Get(file).rows) = Len(Get(c_rating_df))
    /\ LET r == Get(file).rows[c_word_index + 1]
       IN  /\ r.transcription = normalize_word(word_text_edit)
           /\ r.start = round2(Get(c_start_time))
           /\ r.end = round2(Get(c_end_time))

\* C23: when another subject is loaded while the session holds uncommitted
\* pending edits, the load leaves them committed in the output file of the
\* subject that was replaced.
C23_LoadCommitsPending ==
    PendingEdits =>
        \A sub_id \in Subjects \ {Get(c_sub_id)} :
            HoldsPendingEdit(load_audio_file(Start, sub_id).output_files[Get(c_sub_id)])

\* ---- C24 ----
\* C24: after a load that succeeds the pending edit buffer is cleared:
\* c_changed_times is false and the text box and the pending start and end
\* show record 0, whatever line was moved in the session before.
C24_LoadClearsPending ==
    (/\ last_op.op = "load_audio_file"
     /\ HasRecords /\ ~crashed /\ messages = << >>)
        => /\ c_word_index = 0
           /\ PendingIsCurrent
           /\ ~c_changed_times

\* ---- C25 ----
\* the table is written to the subject's output file and the subject loaded
Persisted == save_rating_df(Start)
Reloaded == load_audio_file([Persisted EXCEPT !.messages = << >>], Get(c_sub_id))

\* C25: when an output file exists, load returns the persisted table and does
\* not derive it again from the pre-annotated file; persisting the table and
\* loading the same subject gives the same table: same records, same order,
\* same rater and changed values.
C25_PersistLoadRoundTrip ==
    (c_rating_df # None /\ c_sub_id # None /\ ~crashed)
        => /\ Reloaded.output_files = Persisted.output_files
           /\ Reloaded.c_rating_df = c_rating_df

\* ---- C30 ----
\* what split_word returns when run now
SplitNow == split_word(Start)

\* C30: split_word builds both halves from the stored record under the cursor
\* and commits nothing of the pending edit: when it returns, the first half
\* has the stored start, the second the stored end, both the stored rater and
\* changed, their transcriptions are the stored one with " (split 1)" and
\* " (split 2)" appended, and the text box shows the first half instead of
\* what was typed.
C30_SplitCopiesStored ==
    (HasRecords /\ ~crashed /\ c_start_time # None /\ c_end_time # None
                /\ ~SplitNow.crashed)
        => LET i == c_word_index + 1
               old == Get(c_rating_df)[i]
               new == df_of(SplitNow)
           IN  /\ new[i].start = old.start
               /\ new[i + 1].end = old.end
               /\ new[i].rater = old.rater /\ new[i + 1].rater = old.rater
               /\ new[i].changed = old.changed /\ new[i + 1].changed = old.changed
               /\ new[i].transcription = old.transcription \o Split1Suffix
               /\ new[i + 1].transcription = old.transcription \o Split2Suffix
               /\ SplitNow.word_text_edit = new[i].transcription
               /\ SplitNow.output_files[Get(c_sub_id)] = Some(to_csv(new))

\* record 0 (2.0-4.0, rater AB, unchanged) was split while its end line stood
\* at 4.501: the halves keep 2.0 and 4.0, AB and unchanged
C30_Witness ==
    /\ last_op.op = "split_word" /\ last_op.index = 0
    /\ HasRecords /\ ~crashed
    /\ Len(Get(c_rating_df)) = 3
    /\ Get(c_rating_df)[1].start = Ms(2000)
    /\ Get(c_rating_df)[1].end = (Ms(2000) + Ms(4501)) \div 2 - Tenth
    /\ Get(c_rating_df)[2].end = Ms(4000)
    /\ Get(c_rating_df)[1].rater = "AB" /\ Get(c_rating_df)[2].rater = "AB"
    /\ ~Get(c_rating_df)[1].changed /\ ~Get(c_rating_df)[2].changed
    /\ word_text_edit = << "C", "a", "t" >> \o Split1Suffix

\* ---- C26 ----
\* what the playback slots return when run now: a start with and without
\* padding, a stop, and the timer's tick if a timer runs
PlaybackResults ==
    { play_audio(Start, FALSE), play_context(Start), stop_playback_tracking(Start) }
        \cup IF playback_timer = None THEN {}
             ELSE { update_playback_position(Start, Get(playback_timer).start_time,
                                             Get(playback_timer).end_time) }

\* C26: a start, a tick and a stop of the playback, run in any state the
\* session reaches with playbacks interleaved, leave the table, the cursor,
\* the pending start, end, text and c_changed_times and the output files as
\* they are.
C26_PlaybackLeavesSession ==
    ~crashed =>
        \A r \in PlaybackResults :
            /\ ~r.crashed
            /\ r.c_rating_df = c_rating_df
            /\ r.c_sub_id = c_sub_id
            /\ r.c_word_index = c_word_index
            /\ r.c_start_time = c_start_time
            /\ r.c_end_time = c_end_time
            /\ r.word_text_edit = word_text_edit
            /\ r.c_changed_times = c_changed_times
            /\ r.output_files = output_files

\* the end line of the second record was dragged to 4.504, the word played,
\* and the first tick (4.511) has stopped the playback: the drag is still pending
C26_Witness ==
    /\ last_op.op = "update_playback_position"
    /\ playback_timer = None /\ playback_line = None
    /\ playback_current_time = Some(Ms(4511))
    /\ c_word_index = 1
    /\ c_end_time = Some(Ms(4504))
    /\ c_changed_times
    /\ ~crashed

\* ---- C27 ----
\* id is sub-<digits>
IsSubjectId(id) ==
    /\ Len(id) >= 5
    /\ SubSeq(id, 1, 4) = << "s", "u", "b", "-" >>
    /\ \A k \in 5..Len(id) : IsDigit(id[k])

\* the file name starts with id and goes on with something that is no digit
NamesSubject(stem, id) ==
    /\ IsSubjectId(id)
    /\ Len(id) <= Len(stem)
    /\ SubSeq(stem, 1, Len(id)) = id
    /\ Len(stem) > Len(id) => ~IsDigit(stem[Len(id) + 1])

\* the subject ids that have a file among files
SubjectsOf(files) ==
    { id \in UNION { { SubSeq(f.stem, 1, n) : n \in 0..Len(f.stem) } : f \in files } :
        \E f \in files : NamesSubject(f.stem, id) }

\* the tables of the input directory and the recordings of the audio
\* directory of the window's data folder
InputFiles == glob(Get(file_system.dirs[Get(data_dir)]).pre_annotated, ".csv")
Recordings == glob(Get(file_system.dirs[Get(data_dir)]).audio, ".wav")

\* C27: the subject list of the window holds, once each, exactly the subject
\* ids (file name prefix sub-<digits>) that have both a table in the input
\* directory and a recording in the audio directory; a file whose name does
\* not match is left out and no error is shown for it.
C27_SubjectListIsBoth ==
    main_pc = "window" =>
        LET both == SubjectsOf(InputFiles) \cap SubjectsOf(Recordings)
        IN  /\ { sub_list[k] : k \in 1..Len(sub_list) } = both
            /\ Len(sub_list) = Cardinality(both)
            /\ \A k \in 1..(Len(sub_list) - 1) : str_lt(sub_list[k], sub_list[k + 1])
            /\ ~crashed
            /\ (InputFiles # {} /\ Recordings # {})
                   => \A k \in 1..Len(messages) : messages[k] # "MISSING DATA ERROR"

\* the window lists sub-01 and sub-02 (from sub-02_w.csv and sub-02.wav) while
\* notes.csv, sub-02.txt and sub-x.wav are in the directories; no box was shown
C27_Witness ==
    /\ main_pc = "window"
    /\ sub_list = << Sub01, Sub02 >>
    /\ InputFiles = { File(Sub01, ".csv"), File(Sub02Words, ".csv"), File(Notes, ".csv") }
    /\ File(Sub02, ".txt") \in Get(Get(file_system.dirs[Get(data_dir)]).pre_annotated)
    /\ File(SubX, ".wav") \in Recordings
    /\ messages = << >>

\* ---- C28 ----
\* the settings file main reads gives no data folder, or one that does not exist
StoredUnusable ==
    LET loaded == load_settings(file_system, CWD)
    IN  loaded[1] = None \/ file_system.dirs[Get(loaded[1])] = None

\* C28: a run of main opens the annotator window only on a data folder that
\* exists when main starts and with rater initials that are not empty; if
\* the stored configuration is absent or names a folder that does not exist,
\* the window opens only after the setup dialog was shown.
C28_StartsOnlyConfigured ==
    [][ (last_op'.op = "main" /\ main_pc' = "window")
        => /\ file_system.dirs[Get(data_dir')] # None
           /\ rater_name' # << >>
           /\ StoredUnusable => last_op'.arg # None
      ]_vars

\* ---- C29 ----
\* C29: once the setup dialog was accepted and the window is open, the
\* settings file the next run reads holds the data folder and the rater
\* initials this run has saved.
C29_SavedIsLoaded ==
    (main_pc = "window" /\ last_op.op = "main" /\ last_op.arg # None)
        => load_settings(file_system, CWD) = << data_dir, Some(rater_name) >>

\* ---- C31 ----
\* the last slot replaced the record under the cursor and show_current_word
\* loaded the new one into the text box and the pending times: a delete that
\* was confirmed, a split, a load
JustReloaded ==
    /\ HasRecords /\ ~crashed /\ messages = << >>
    /\ \/ last_op.op = "split_word"
       \/ last_op.op = "load_audio_file"
       \/ last_op.op = "delete_word" /\ last_op.arg = "Yes"
    /\ PendingIsCurrent

\* C31: a record's changed flag turns true only at a commit made while the
\* record is under the cursor, and only for an edit of its own text or
\* boundaries made since it was loaded into the pending buffer: a commit
\* leaves the flag of every other record as it is, and a commit that comes
\* right after a delete, a split or a load, with nothing edited since, leaves
\* the flag of the record under the cursor as it is, whatever line was moved
\* before.
C31_ChangedOnlyByOwnEdit ==
    (HasRecords /\ ~crashed /\ ~CommitOnce.crashed)
        => /\ \A j \in 1..Len(Get(c_rating_df)) :
                  j # c_word_index + 1
                      => df_of(CommitOnce)[j].changed = Get(c_rating_df)[j].changed
           /\ JustReloaded
                  => df_of(CommitOnce)[c_word_index + 1].changed
                         = Get(c_rating_df)[c_word_index + 1].changed

============================================================================
